---- MODULE Spec2Model ----
(***************************************************************************)
(* A model of PuriFIR (src/src/PuriFIR.ts, lines 1-331): the constructor,  *)
(* process, the radix-2 fft/ifft and normalize.                            *)
(*                                                                         *)
(* JavaScript numbers are modelled as exact reals.  A real is a record     *)
(*   [q |-> <<n, d>>, t |-> terms]                                         *)
(* standing for  n/d + SUM { c * f(a) : <<f, a, c>> \in terms },  where    *)
(* f is "ln" (Math.log) or "sqrt" (Math.sqrt of a non-square), a is a      *)
(* positive rational and c a non-zero rational.  NaN is the real with      *)
(* d = 0.  Arrays are functions on 0..n-1, as in the source.               *)
(***************************************************************************)
EXTENDS Integers, Sequences, FiniteSets, TLC

\* ------------------------------------------------------------------ bounds
\* Longest input channel, in samples.
MaxLen == 4
\* Most input channels handed to process.
MaxChannels == 3
\* Most iterations followed of a loop whose offset does not advance.
MaxFrames == 3
\* The runs of several calls (SpecCalls): two channels of 2..MaxCallLen
\* samples each, and up to MaxCalls calls after the one remembered.
MaxCallLen == 2
MaxCalls == 2
\* The parts of the elements fft is run on (SpecFft) are integers 0..MaxPart.
MaxPart == 1
\* The index pairs of the butterflies are examined for 2^1..2^MaxStageLog
\* elements.
MaxStageLog == 4
\* The reconstruction runs (SpecImpulse) take two channels of up to
\* MaxImpulseLen samples, the second no longer than the first.
MaxImpulseLen == 5
\* The single-impulse runs (SpecSpike) take two channels of up to
\* MaxSpikeLen samples each.
MaxSpikeLen == 6
\* The Hilbert mask is run (SpecMask) on window sizes 2^1..2^MaxMaskLog.
MaxMaskLog == 3
\* The host driver is run (SpecDriver) on buffers of up to MaxHostChannels
\* channels of up to MaxHostFrames frames.
MaxHostChannels == 3
MaxHostFrames == 3
\* The reorder step of fft is run (SpecReorder) on arrays of 1 up to
\* 2^MaxReorderLog elements.
MaxReorderLog == 4
\* Longest input channel of the envelope extraction runs (SpecExtract).
MaxExtractLen == 6
\* The frame-loop runs (SpecFrames) take inputs of k * 1024 + d samples,
\* 2 <= k <= MaxBlocks and -FrameSlack <= d <= FrameSlack.
MaxBlocks == 5
FrameSlack == 4
\* The buffers normalize is run on (SpecNorm): up to MaxNormLen samples per
\* channel, each an integer of magnitude at most MaxNormSample.
MaxNormLen == 2
MaxNormSample == 2

\* --------------------------------------------------------------- rationals
Abs(n) == IF n < 0 THEN -n ELSE n

RECURSIVE Gcd(_, _)
Gcd(a, b) == IF b = 0 THEN a ELSE Gcd(b, a % b)

\* The rational n/d (d > 0) in lowest terms.
Q(n, d) == LET g == Gcd(Abs(n), d) IN <<n \div g, d \div g>>

QZero == <<0, 1>>
QOne == <<1, 1>>
QInt(n) == <<n, 1>>
QAdd(a, b) == IF a[2] = 1 /\ b[2] = 1 THEN <<a[1] + b[1], 1>>
              ELSE Q(a[1] * b[2] + b[1] * a[2], a[2] * b[2])
QNeg(a) == <<-a[1], a[2]>>
QSub(a, b) == QAdd(a, QNeg(b))
QMul(a, b) == IF a[2] = 1 /\ b[2] = 1 THEN <<a[1] * b[1], 1>>
              ELSE Q(a[1] * b[1], a[2] * b[2])
\* a / b for b # 0
QDiv(a, b) == IF b[1] < 0 THEN Q(-(a[1] * b[2]), a[2] * (-b[1]))
              ELSE Q(a[1] * b[2], a[2] * b[1])
QLt(a, b) == a[1] * b[2] < b[1] * a[2]

\* ------------------------------------------------------------------- reals
NaN == [q |-> <<0, 0>>, t |-> {}]
IsNaN(x) == x.q[2] = 0
Rat(a) == [q |-> a, t |-> {}]
Num(n) == Rat(QInt(n))
Zero == Num(0)
One == Num(1)
IsRat(x) == ~IsNaN(x) /\ x.t = {}

\* The coefficient of the term f(a) in the term set t.
Coeff(t, f, a) == IF \E e \in t : e[1] = f /\ e[2] = a
                  THEN (CHOOSE e \in t : e[1] = f /\ e[2] = a)[3]
                  ELSE QZero
Keys(t) == {<<e[1], e[2]>> : e \in t}
MergeTerms(s, t) ==
    IF s = {} THEN t ELSE IF t = {} THEN s ELSE
    {e \in {<<k[1], k[2], QAdd(Coeff(s, k[1], k[2]), Coeff(t, k[1], k[2]))>> :
                k \in Keys(s) \cup Keys(t)} : e[3] # QZero}
ScaleTerms(t, c) == IF c = QZero \/ t = {} THEN {} ELSE {<<e[1], e[2], QMul(e[3], c)>> : e \in t}

\* a + b, a - b, a * b, a / b of JavaScript numbers (NaN is contagious).
RAdd(a, b) == IF IsNaN(a) \/ IsNaN(b) THEN NaN
              ELSE [q |-> QAdd(a.q, b.q), t |-> MergeTerms(a.t, b.t)]
RScale(a, c) == IF IsNaN(a) THEN NaN
                ELSE [q |-> QMul(a.q, c), t |-> ScaleTerms(a.t, c)]
RNeg(a) == RScale(a, QInt(-1))
RSub(a, b) == RAdd(a, RNeg(b))
\* The terms of a value: <<"sqrt", r, c>> is c * sqrt(r) and <<"ln", x, c>>
\* is c * ln(x); <<"cos", <<r, x>>, c>> is c * sqrt(r) * cos(x), likewise
\* "sin", and <<"cos2", <<r, x>>, c>> is c * sqrt(r) * cos(x)^2.
IsOneTerm(a, kinds) ==
    /\ ~IsNaN(a)
    /\ a.q = QZero
    /\ Cardinality(a.t) = 1
    /\ \A e \in a.t : e[1] \in kinds
TheTerm(a) == CHOOSE e \in a.t : TRUE
\* a * b.  A product with a rational factor is a scaling; the square of
\* sqrt(r) is r; sqrt(r) * cos(x) and sqrt(r) * sin(x) are terms of their
\* own; cos(x)^2 is a term and sin(x)^2 is 1 - cos(x)^2.
RMul(a, b) ==
    CASE IsNaN(a) \/ IsNaN(b) -> NaN
      [] a.t = {} -> RScale(b, a.q)
      [] b.t = {} -> RScale(a, b.q)
      [] a = b /\ IsOneTerm(a, {"sqrt"}) ->
            LET e == TheTerm(a) IN Rat(QMul(e[2], QMul(e[3], e[3])))
      [] IsOneTerm(a, {"sqrt"}) /\ IsOneTerm(b, {"cos", "sin"})
            /\ TheTerm(b)[2][1] = QOne ->
            LET e == TheTerm(a)
                f == TheTerm(b)
            IN [q |-> QZero, t |-> {<<f[1], <<e[2], f[2][2]>>, QMul(e[3], f[3])>>}]
      [] a = b /\ IsOneTerm(a, {"cos"}) ->
            LET e == TheTerm(a)
                c == QMul(e[2][1], QMul(e[3], e[3]))
            IN [q |-> QZero, t |-> {<<"cos2", <<QOne, e[2][2]>>, c>>}]
      [] a = b /\ IsOneTerm(a, {"sin"}) ->
            LET e == TheTerm(a)
                c == QMul(e[2][1], QMul(e[3], e[3]))
            IN [q |-> c, t |-> {<<"cos2", <<QOne, e[2][2]>>, QNeg(c)>>}]
\* a / b for a rational b # 0
RDiv(a, b) == IF IsNaN(a) \/ IsNaN(b) THEN NaN ELSE RScale(a, QDiv(QOne, b.q))

\* The square of a value that is a rational or one sqrt term.
Square(a) == RMul(a, a)
\* a > b and a < b of JavaScript (false when either is NaN).  Magnitudes,
\* which are non-negative, are compared by their squares.
RGt(a, b) ==
    CASE IsNaN(a) \/ IsNaN(b) -> FALSE
      [] a.t = {} /\ b.t = {} -> QLt(b.q, a.q)
      [] OTHER -> QLt(Square(b).q, Square(a).q)
RLt(a, b) == RGt(b, a)
\* v is the greatest of the values in S.
IsGreatest(v, S) == v \in S /\ \A s \in S : ~RGt(s, v)
\* Math.abs
RAbs(a) == IF IsRat(a) /\ a.q[1] < 0 THEN RNeg(a) ELSE a
\* Math.max(a, b): NaN if either is NaN
RMax(a, b) == CASE IsNaN(a) \/ IsNaN(b) -> NaN
                [] RGt(b, a) -> b
                [] OTHER -> a

IsSquare(n) == \E s \in 0..n : s * s = n
IntSqrt(n) == CHOOSE s \in 0..n : s * s = n
\* Math.sqrt of a rational r >= 0
RSqrt(r) ==
    CASE IsNaN(r) -> NaN
      [] IsRat(r) /\ IsSquare(r.q[1]) /\ IsSquare(r.q[2]) ->
            Rat(<<IntSqrt(r.q[1]), IntSqrt(r.q[2])>>)
      [] IsRat(r) -> [q |-> QZero, t |-> {<<"sqrt", r.q, QOne>>}]
\* Math.log of x > 0 (NaN for NaN and for x < 0); a value with a sqrt term
\* is a magnitude plus 0.000001, which is positive.
RLog(x) ==
    CASE IsNaN(x) -> NaN
      [] x = One -> Zero
      [] IsRat(x) /\ x.q[1] > 0 -> [q |-> QZero, t |-> {<<"ln", x, QOne>>}]
      [] IsRat(x) /\ x.q[1] < 0 -> NaN
      [] ~IsRat(x) -> [q |-> QZero, t |-> {<<"ln", x, QOne>>}]
\* Of x and -x, the one a cosine or sine term is written with: x is turned
\* when the coefficient of its term chosen by key (the same key for x and
\* for -x) is negative.
Turned(x) ==
    IF x.t = {} THEN x.q[1] < 0
    ELSE LET k == CHOOSE k \in Keys(x.t) : TRUE IN Coeff(x.t, k[1], k[2])[1] < 0
Upright(x) == IF Turned(x) THEN RNeg(x) ELSE x
\* Math.cos and Math.sin: exact at 0, a term elsewhere, with
\* cos(-x) = cos(x) and sin(-x) = -sin(x).
RCos(x) ==
    CASE IsNaN(x) -> NaN
      [] x = Zero -> One
      [] OTHER -> [q |-> QZero, t |-> {<<"cos", <<QOne, Upright(x)>>, QOne>>}]
RSin(x) ==
    CASE IsNaN(x) -> NaN
      [] x = Zero -> Zero
      [] OTHER -> [q |-> QZero,
                   t |-> {<<"sin", <<QOne, Upright(x)>>,
                            IF Turned(x) THEN QInt(-1) ELSE QOne>>}]

\* --------------------------------------------------------- complex values
\* { re, im } objects of the source
Cx(re, im) == [re |-> re, im |-> im]
\* isComplex: typeof x === 'object' && 're' in x && 'im' in x
isComplex(x) == "re" \in DOMAIN x
getReal(x) == IF isComplex(x) THEN x.re ELSE x
getImaginary(x) == IF isComplex(x) THEN x.im ELSE Zero
\* abs: the magnitude of a complex value, Math.abs of a number
abs(x) == IF isComplex(x) THEN RSqrt(RAdd(RMul(x.re, x.re), RMul(x.im, x.im)))
          ELSE RAbs(x)
\* complexLog of a number x: { re: Math.log(x), im: 0 }
complexLog(x) == Cx(RLog(x), Zero)
\* rect(r, phi)
rect(r, phi) == Cx(RMul(r, RCos(phi)), RMul(r, RSin(phi)))
complexMultiply(a, b) ==
    LET aRe == getReal(a)
        aIm == getImaginary(a)
        bRe == getReal(b)
        bIm == getImaginary(b)
    IN Cx(RSub(RMul(aRe, bRe), RMul(aIm, bIm)), RAdd(RMul(aRe, bIm), RMul(aIm, bRe)))

\* ------------------------------------------------------------------ arrays
\* An array of length n is a function on 0..n-1.
Length(a) == Cardinality(DOMAIN a)
EmptyArray == [i \in {} |-> Zero]
\* The sum of two complex values.
complexAdd(a, b) == Cx(RAdd(a.re, b.re), RAdd(a.im, b.im))
\* The array holding the elements of a sequence.
ArrayOf(s) == [i \in 0..(Len(s) - 1) |-> s[i + 1]]

\* --------------------------------------------------------------------- fft
\* Math.floor(Math.log(n) / Math.log(2)) for n >= 1.  For n = 0 the source
\* gets -Infinity, which only ever bounds loops from above: -1 stands for it.
RECURSIVE FloorLog2(_)
FloorLog2(n) == IF n < 1 THEN -1 ELSE IF n < 2 THEN 0 ELSE 1 + FloorLog2(n \div 2)

\* A reversal that runs its loop one time less.
RECURSIVE bitReverseShortLoop(_, _, _)
bitReverseShortLoop(x, i, n) ==
    IF i <= 0 THEN n ELSE bitReverseShortLoop(x \div 2, i - 1, 2 * n + (x % 2))
bitReverseShort(x, log2n) == bitReverseShortLoop(x, log2n - 1, 0)

RECURSIVE bitReverseLoop(_, _, _)
bitReverseLoop(x, i, n) ==
    IF i <= 0 THEN n ELSE bitReverseLoop(x \div 2, i - 1, 2 * n + (x % 2))
\* bitReverse(x, log2n): the low log2n bits of x in reverse order
bitReverse(x, log2n) == bitReverseLoop(x, log2n, 0)

\* A forward twiddle factor, exp(-i * PI / m2).
TwiddleForward(m2) == CASE m2 = 1 -> Cx(Num(-1), Zero)
                        [] m2 = 2 -> Cx(Zero, Num(-1))

\* wm = { re: Math.cos(Math.PI / m2), im: Math.sin(Math.PI / m2) }, for the
\* half-group sizes whose root of unity has rational parts.
Twiddle(m2) == CASE m2 = 1 -> Cx(Num(-1), Zero)
                 [] m2 = 2 -> Cx(Zero, One)

\* The outcome of a call that may throw.
Ok(v) == [ok |-> TRUE, X |-> v]
Throw(v) == [ok |-> FALSE, X |-> v]

\* F applied to the value of v, which is computed once.
Bind(v, F(_)) == CHOOSE r \in {F(x) : x \in {v}} : TRUE

\* One butterfly on the pair (k, k + m2).
Butterfly(X, w, k, m2) ==
    LET t == Cx(RSub(RMul(w.re, X[k + m2].re), RMul(w.im, X[k + m2].im)),
                RAdd(RMul(w.re, X[k + m2].im), RMul(w.im, X[k + m2].re)))
        u == X[k]
    IN [X EXCEPT ![k] = Cx(RAdd(u.re, t.re), RAdd(u.im, t.im)),
                 ![k + m2] = Cx(RSub(u.re, t.re), RSub(u.im, t.im))]

\* for (let k = j; k < n; k += m): reading X[k + m2] past the end of X
\* yields undefined, whose .re throws a TypeError.
RECURSIVE fftGroups(_, _, _, _, _, _)
fftGroups(X, w, k, m, m2, n) ==
    IF k >= n THEN Ok(X)
    ELSE IF k + m2 >= n THEN Throw(X)
    ELSE Bind(Butterfly(X, w, k, m2), LAMBDA Y : fftGroups(Y, w, k + m, m, m2, n))

\* for (let j = 0; j < m2; j++) { ...; w = w * wm }
RECURSIVE fftHalfGroup(_, _, _, _, _, _)
fftHalfGroup(X, w, j, m, m2, n) ==
    IF j >= m2 THEN Ok(X)
    ELSE Bind(<<fftGroups(X, w, j, m, m2, n), complexMultiply(w, Twiddle(m2))>>,
              LAMBDA r : IF ~r[1].ok THEN r[1]
                         ELSE fftHalfGroup(r[1].X, r[2], j + 1, m, m2, n))

\* for (let s = 1; s <= log2n; s++) with m = 1 << s, m2 = m >> 1
RECURSIVE fftStages(_, _, _, _)
fftStages(X, s, log2n, n) ==
    IF s > log2n THEN Ok(X)
    ELSE Bind(fftHalfGroup(X, Cx(One, Zero), 0, 2 ^ s, 2 ^ (s - 1), n),
              LAMBDA r : IF ~r.ok THEN r ELSE fftStages(r.X, s + 1, log2n, n))

\* The bit-reversal copy, promoting numbers to complex values.
fftReorder(x, n, log2n) ==
    [i \in 0..(n - 1) |->
        LET rev == bitReverse(i, log2n)
        IN IF isComplex(x[rev]) THEN Cx(x[rev].re, x[rev].im) ELSE Cx(x[rev], Zero)]

\* fft(x): Ok(X), or Throw when a butterfly reads past the end of X.
fftOf(x) ==
    LET n == Length(x)
        log2n == FloorLog2(n)
    IN Bind(fftReorder(x, n, log2n), LAMBDA X : fftStages(X, 1, log2n, n))
fft(x) == Bind(x, LAMBDA v : fftOf(v))

\* Butterflies of stage s that advance k by m2 instead of m.
StagePairsHalfStep(s, n) ==
    LET m2 == 2 ^ (s - 1)
    IN {<<j, j + i * m2>> : j \in 0..(m2 - 1), i \in 0..(n - 1)}
       \cap ((0..(m2 - 1)) \X (0..(n - m2 - 1)))
\* The butterflies of stage s on n elements, as <<j, k>>: j from 0 to m2 - 1
\* and, for each j, k = j, j + m, j + 2m, ... below n.
StagePairs(s, n) ==
    LET m == 2 ^ s
        m2 == 2 ^ (s - 1)
    IN {<<j, j + i * m>> : j \in 0..(m2 - 1), i \in 0..(n - 1)}
       \cap ((0..(m2 - 1)) \X (0..(n - 1)))
\* w when the loop over j reaches j: wm multiplied j times into 1.
RECURSIVE TwiddlePower(_, _)
TwiddlePower(m2, j) ==
    IF j = 0 THEN Cx(One, Zero)
    ELSE complexMultiply(TwiddlePower(m2, j - 1), Twiddle(m2))

\* An ifft that does not conjugate its input.
ConjugateNot(X) == X

\* ifft(X): conjugate, fft, conjugate and divide by n.
Conjugate(X) == [i \in DOMAIN X |-> Cx(X[i].re, RNeg(X[i].im))]
ifftOf(X) ==
    LET n == Length(X)
    IN Bind(fft(Conjugate(X)),
            LAMBDA x : IF ~x.ok THEN x
                       ELSE Ok([i \in DOMAIN x.X |->
                                   Cx(RDiv(x.X[i].re, Num(n)),
                                      RDiv(RNeg(x.X[i].im), Num(n)))]))
ifft(X) == Bind(X, LAMBDA v : ifftOf(v))

\* ----------------------------------------------------------------- PuriFIR
\* The window sizes the model constructs PuriFIR with: those whose Hann
\* coefficients are rational, the smallest ones and a negative one.
WindowSizes == {-1, 0, 1, 2, 3, 6}
\* The values a sample of the input takes.
SampleValues == {0, 1}

\* Math.cos(2 * Math.PI * i / n), for the fractions i/n where it is rational
CosTurn(i, n) ==
    LET d == n \div Gcd(i % n, n)
    IN CASE d = 1 -> One
         [] d = 2 -> Num(-1)
         [] d = 3 -> Rat(<<-1, 2>>)
         [] d = 4 -> Zero
         [] d = 6 -> Rat(<<1, 2>>)

\* A window of ones.
createRectangularWindow(ws) == [i \in 0..(ws - 1) |-> One]

\* createHanningWindow: window[i] = 0.5 - 0.5 * cos(2 * PI * i / windowSize)
createHanningWindow(ws) ==
    [i \in 0..(ws - 1) |-> RSub(Rat(<<1, 2>>), RMul(Rat(<<1, 2>>), CosTurn(i, ws)))]

\* The message of the Error thrown by the length guard of process.
TooShort == "Input buffer is too short!"

\* inputBuffer[c][i] as it enters the sum of the two channels: reading past
\* the end of a channel yields undefined, and undefined + x is NaN.
Sample(input, c, i) == IF i \in DOMAIN input[c] THEN Num(input[c][i]) ELSE NaN

\* A length guard that lets an input one sample short of the window through.
LengthGuardOffByOne(input, ws) == Length(input[0]) < ws - 1

\* if (inputBuffer[0].length < this.windowSize) throw ...
LengthGuard(input, ws) == Length(input[0]) < ws

\* A loop that advances by a whole window, without overlap.
jumpWhole(ws) == ws

\* const jump = Math.floor(this.windowSize / 2)
jump(ws) == ws \div 2

\* A loop that stops before a frame that ends on the last sample.
LoopCondStrict(t, ws, input) == t + ws < Length(input[0])

\* while (track + this.windowSize <= inputBuffer[0].length)
LoopCond(t, ws, input) == t + ws <= Length(input[0])

\* A frame built from channel 0 alone.
WindowedFrameChannel0(input, hann, t, ws) ==
    [i \in 0..(ws - 1) |-> RMul(Sample(input, 0, t + i), hann[i])]

\* buffer[i] = ((inputBuffer[0][track + i] + inputBuffer[1][track + i]) / 2)
\*             * this.hanningWindow[i]
WindowedFrame(input, hann, t, ws) ==
    [i \in 0..(ws - 1) |->
        RMul(RDiv(RAdd(Sample(input, 0, t + i), Sample(input, 1, t + i)), Num(2)),
             hann[i])]

\* The sample places one frame reads.
FrameReads(t, ws) == {<<c, t + i>> : c \in 0..1, i \in 0..(ws - 1)}

\* The magnitudes of one frame's spectrum.
Magnitudes(X, ws) == [i \in 0..(ws - 1) |-> abs(X[i])]

\* A peak update that keeps the latest magnitude.
PeakHoldLatest(a, mag) == mag

\* amplitudes[i] = amplitudes[i] > mag ? amplitudes[i] : mag
PeakHold(a, mag) == IF RGt(a, mag) THEN a ELSE mag
PeakUpdate(amp, X, ws) == [i \in 0..(ws - 1) |-> PeakHold(amp[i], abs(X[i]))]

\* The 0.000001 added to a bin before its logarithm is taken.
Epsilon == Rat(<<1, 1000000>>)

\* A mask that doubles the bins on both sides of floor(ws / 2).
HilbertMaskMirrored(ws) ==
    [i \in (0..(ws - 1)) \cup {0, ws \div 2} |->
        IF i = 0 \/ i = ws \div 2 THEN One ELSE Num(2)]

\* The Hilbert mask: zeros, then H[0] = 1, H[floor(ws / 2)] = 1 and
\* H[i] = 2 for 1 <= i < floor(ws / 2).
HilbertMask(ws) ==
    [i \in (0..(ws - 1)) \cup {0, ws \div 2} |->
        IF 1 <= i /\ i < ws \div 2 THEN Num(2)
        ELSE IF i = 0 \/ i = ws \div 2 THEN One
        ELSE Zero]

\* The reconstruction: the impulse of the minimum-phase spectrum built from
\* the envelope, or Throw when a transform throws.
LogMagnitude(amp, ws) == [i \in 0..(ws - 1) |-> complexLog(RAdd(amp[i], Epsilon))]
CepstrumHilbert(cepstrum, H, ws) ==
    [i \in 0..(ws - 1) |-> complexMultiply(cepstrum[i], H[i])]
MinPhase(analyticSignal, ws) ==
    [i \in 0..(ws - 1) |-> RMul(Num(-1), getImaginary(analyticSignal[i]))]
MinPhaseSpectrum(amp, minPhase, ws) ==
    [i \in 0..(ws - 1) |-> rect(amp[i], minPhase[i])]
Reconstruct(amp, ws) ==
    Bind(fft(LogMagnitude(amp, ws)), LAMBDA cepstrum :
        IF ~cepstrum.ok THEN cepstrum
        ELSE Bind(ifft(CepstrumHilbert(cepstrum.X, HilbertMask(ws), ws)),
                  LAMBDA analyticSignal :
            IF ~analyticSignal.ok THEN analyticSignal
            ELSE Bind(MinPhase(analyticSignal.X, ws), LAMBDA minPhase :
                     ifft(MinPhaseSpectrum(amp, minPhase, ws)))))

\* An output copy that fills a third channel as well.
CopyOutputThreeChannels(impulse, ws) ==
    [c \in 0..2 |-> [i \in 0..(ws - 1) |-> getReal(impulse[i])]]

\* outputBuffer[0][i] = outputBuffer[1][i] = getReal(impulse[i])
CopyOutput(impulse, ws) ==
    [c \in 0..1 |-> [i \in 0..(ws - 1) |-> getReal(impulse[i])]]

\* The loop of process as a function of its input: the envelope after the
\* frames from offset t on, from the envelope amp; Throw when a transform
\* throws.  Defined for a window size of 2 or more.
RECURSIVE ExtractFrom(_, _, _, _, _)
ExtractFrom(input, hann, ws, t, amp) ==
    IF ~LoopCond(t, ws, input) THEN Ok(amp)
    ELSE Bind(fft(WindowedFrame(input, hann, t, ws)), LAMBDA bufferFFT :
            IF ~bufferFFT.ok THEN bufferFFT
            ELSE Bind(PeakUpdate(amp, bufferFFT.X, ws), LAMBDA next :
                     ExtractFrom(input, hann, ws, t + jump(ws), next)))
Envelope(input, hann, ws) ==
    ExtractFrom(input, hann, ws, 0, [i \in 0..(ws - 1) |-> Zero])

\* process up to the call of normalize, as a function of its input.
Unnormalized(input, hann, ws) ==
    Bind(Envelope(input, hann, ws), LAMBDA amp :
        IF ~amp.ok THEN amp
        ELSE Bind(Reconstruct(amp.X, ws), LAMBDA impulse :
                 IF ~impulse.ok THEN impulse
                 ELSE Ok(CopyOutput(impulse.X, ws))))

\* The frames of the Python original on a selection of selectionLength
\* samples: while selectionLength > windowSize, a frame at track, then
\* selectionLength -= jump and track += jump.
RECURSIVE PyLoop(_, _, _, _)
PyLoop(selectionLength, ws, t, done) ==
    IF selectionLength > ws
    THEN PyLoop(selectionLength - (ws \div 2), ws, t + (ws \div 2), Append(done, t))
    ELSE done
PyFrames(selectionLength, ws) ==
    IF selectionLength < ws THEN <<>> ELSE PyLoop(selectionLength, ws, 0, <<>>)

\* The maximum of normalize: Math.max folded over channels 0 and 1 and the
\* first ws samples of each, starting from 0.
RECURSIVE MaxLoop(_, _, _, _, _)
MaxLoop(buffer, ws, c, i, max) ==
    IF c >= 2 THEN max
    ELSE IF i >= ws THEN MaxLoop(buffer, ws, c + 1, 0, max)
    ELSE MaxLoop(buffer, ws, c, i + 1, RMax(max, RAbs(buffer[c][i])))
\* A maximum taken over channel 1 alone.
BufferMaxChannel1(buffer, ws) == MaxLoop(buffer, ws, 1, 0, Zero)
BufferMax(buffer, ws) == MaxLoop(buffer, ws, 0, 0, Zero)

\* normalize(buffer): scale by 1 / max when max > 0
Scaled(buffer, ws, scale) ==
    [c \in DOMAIN buffer |->
        IF c < 2 THEN [i \in DOMAIN buffer[c] |->
                          IF i < ws THEN RMul(buffer[c][i], scale) ELSE buffer[c][i]]
        ELSE buffer[c]]
normalize(buffer, ws) ==
    Bind(BufferMax(buffer, ws), LAMBDA max :
        IF RGt(max, Zero) THEN Bind(RDiv(One, max), LAMBDA scale : Scaled(buffer, ws, scale))
        ELSE buffer)

\* ------------------------------------------------------------------- state
VARIABLES
    pc,             \* "ready", "loop" (inside process), "returned", "thrown"
    windowSize,     \* this.windowSize
    hanningWindow,  \* this.hanningWindow
    inputBuffer,    \* the argument of the call of process
    track,          \* the offset of the next frame
    amplitudes,     \* the running envelope
    frames,         \* the offsets of the frames windowed so far
    mags,           \* the magnitudes of the frames transformed so far
    reads,          \* the places <<channel, index>> read from inputBuffer
    unnormalized,   \* outputBuffer before normalize
    result,         \* the buffer returned
    error,          \* what was thrown
    remembered,     \* an earlier call of process: its instance, input, outcome
    signal,         \* the argument x of a call of fft
    spectrum,       \* the outcome of fft(x)
    restored,       \* the outcome of ifft(fft(x))
    work,           \* the array X of fft, its butterflies run in some order
    stage,          \* the stage s those butterflies are in
    done,           \* the butterflies <<j, k>> of that stage that have run
    cepstrum,       \* the cepstrum the Hilbert mask is applied to
    H,              \* the Hilbert mask
    cepstrumHilbert, \* the masked cepstrum
    variant,        \* the revision of the host driver that runs
    driverPc,       \* the driver's place: "start", "read", "written", "done"
    hostInput,      \* the channels of the host's buffer "input"
    driverInput,    \* the driver's array input
    events,         \* the calls made on the host so far, in order
    source,         \* the argument x of the reorder step of fft
    target,         \* the array X of the reorder step, as far as it is filled
    position,       \* the index i of the reorder step
    fetched         \* the indices of x read so far

\* The variables of an instance and of a call of process on it.
core == <<pc, windowSize, hanningWindow, inputBuffer, track, amplitudes, frames,
          mags, reads, unnormalized, result, error>>
\* The variables that a step of process does not touch.
fftVars == <<signal, spectrum, restored, work, stage, done>>
maskVars == <<cepstrum, H, cepstrumHilbert>>
driverVars == <<variant, driverPc, hostInput, driverInput, events>>
reorderVars == <<source, target, position, fetched>>
others == <<remembered, fftVars, maskVars, driverVars, reorderVars>>
vars == <<core, others>>

\* No earlier call is remembered.
NoCall == [set |-> FALSE, calls |-> 0, windowSize |-> 0, inputBuffer |-> <<>>,
           pc |-> "ready", error |-> "none", result |-> <<>>]
CallsIdle == remembered = NoCall
FftIdle ==
    /\ signal = EmptyArray
    /\ spectrum = Ok(EmptyArray)
    /\ restored = Ok(EmptyArray)
    /\ work = EmptyArray
    /\ stage = 0
    /\ done = {}
MaskIdle == cepstrum = EmptyArray /\ H = EmptyArray /\ cepstrumHilbert = EmptyArray
DriverIdle ==
    /\ variant = "none"
    /\ driverPc = "none"
    /\ hostInput = <<>>
    /\ driverInput = <<>>
    /\ events = <<>>
ReorderIdle == source = EmptyArray /\ target = EmptyArray /\ position = 0 /\ fetched = {}
OthersIdle == CallsIdle /\ FftIdle /\ MaskIdle /\ DriverIdle /\ ReorderIdle

\* The channels of up to n samples.
ChannelsUpTo(n) == UNION {[0..(k - 1) -> SampleValues] : k \in 0..n}
\* A silent channel of n samples.
Silent(n) == [i \in 0..(n - 1) |-> 0]
\* The inputs process is called with: one or two channels of any content,
\* and those followed by further channels, each empty or silent.
Channels == ChannelsUpTo(MaxLen)
ExtraChannels == {Silent(0), Silent(MaxLen)}
Inputs ==
    UNION {[0..(n - 1) -> Channels] : n \in 1..2}
    \cup UNION {{[c \in 0..(n - 1) |-> IF c < 2 THEN two[c] ELSE extra[c]] :
                    two \in [0..1 -> Channels], extra \in [2..(n - 1) -> ExtraChannels]} :
                n \in 3..MaxChannels}

NoBuffer == <<>>

\* new PuriFIR(windowSize): the constructor stores the size and the window.
Init ==
    /\ windowSize \in WindowSizes
    /\ hanningWindow = createHanningWindow(windowSize)
    /\ pc = "ready"
    /\ inputBuffer = NoBuffer
    /\ track = 0
    /\ amplitudes = EmptyArray
    /\ frames = <<>>
    /\ mags = <<>>
    /\ reads = {}
    /\ unnormalized = NoBuffer
    /\ result = NoBuffer
    /\ error = "none"
    /\ OthersIdle

Thrown(e) ==
    /\ pc' = "thrown"
    /\ error' = e
    /\ UNCHANGED <<unnormalized, result>>

\* A process whose offset is kept from one call to the next.
CallKeepsOffset(input) ==
    /\ pc = "ready"
    /\ inputBuffer' = input
    /\ UNCHANGED <<windowSize, hanningWindow, frames, mags, reads, track>>
    /\ UNCHANGED others
    /\ IF LengthGuard(input, windowSize)
       THEN Thrown(TooShort) /\ UNCHANGED amplitudes
       ELSE IF windowSize < 0
       THEN Thrown("RangeError") /\ UNCHANGED amplitudes
       ELSE /\ amplitudes' = [i \in 0..(windowSize - 1) |-> Zero]
            /\ pc' = "loop"
            /\ UNCHANGED <<unnormalized, result, error>>

\* A process whose envelope is kept from one call to the next.
CallKeepsEnvelope(input) ==
    /\ pc = "ready"
    /\ inputBuffer' = input
    /\ UNCHANGED <<windowSize, hanningWindow, frames, mags, reads>>
    /\ UNCHANGED others
    /\ IF LengthGuard(input, windowSize)
       THEN Thrown(TooShort) /\ UNCHANGED <<amplitudes, track>>
       ELSE IF windowSize < 0
       THEN Thrown("RangeError") /\ UNCHANGED <<amplitudes, track>>
       ELSE /\ amplitudes' = IF DOMAIN amplitudes = 0..(windowSize - 1)
                             THEN amplitudes
                             ELSE [i \in 0..(windowSize - 1) |-> Zero]
            /\ track' = 0
            /\ pc' = "loop"
            /\ UNCHANGED <<unnormalized, result, error>>

\* process(inputBuffer), up to the loop: the length guard, then the
\* allocation of amplitudes (new Array of a negative length is a RangeError)
\* and of the offset.
Call(input) ==
    /\ pc = "ready"
    /\ inputBuffer' = input
    /\ UNCHANGED <<windowSize, hanningWindow, frames, mags, reads>>
    /\ UNCHANGED others
    /\ IF LengthGuard(input, windowSize)
       THEN Thrown(TooShort) /\ UNCHANGED <<amplitudes, track>>
       ELSE IF windowSize < 0
       THEN Thrown("RangeError") /\ UNCHANGED <<amplitudes, track>>
       ELSE /\ amplitudes' = [i \in 0..(windowSize - 1) |-> Zero]
            /\ track' = 0
            /\ pc' = "loop"
            /\ UNCHANGED <<unnormalized, result, error>>

\* One iteration of the loop: window a frame, transform it, fold its
\* magnitudes into the envelope, advance.  With a single input channel
\* inputBuffer[1] is undefined and its first read throws a TypeError.
Frame ==
    /\ pc = "loop"
    /\ LoopCond(track, windowSize, inputBuffer)
    /\ jump(windowSize) = 0 => Len(frames) < MaxFrames
    /\ UNCHANGED <<windowSize, hanningWindow, inputBuffer>>
    /\ UNCHANGED others
    /\ IF windowSize > 0 /\ Length(inputBuffer) < 2
       THEN /\ Thrown("TypeError")
            /\ reads' = reads \cup {<<0, track>>}
            /\ UNCHANGED <<track, amplitudes, frames, mags>>
       ELSE \E bufferFFT \in {fft(WindowedFrame(inputBuffer, hanningWindow, track,
                                                 windowSize))} :
               /\ frames' = Append(frames, track)
               /\ reads' = reads \cup FrameReads(track, windowSize)
               /\ IF ~bufferFFT.ok
                  THEN /\ Thrown("TypeError")
                       /\ UNCHANGED <<track, amplitudes, mags>>
                  ELSE /\ amplitudes' = PeakUpdate(amplitudes, bufferFFT.X, windowSize)
                       /\ mags' = Append(mags, Magnitudes(bufferFFT.X, windowSize))
                       /\ track' = track + jump(windowSize)
                       /\ UNCHANGED <<pc, unnormalized, result, error>>

\* The rest of process once the loop ends: reconstruction, the copy into
\* both output channels, normalize, return.
Finish ==
    /\ pc = "loop"
    /\ ~LoopCond(track, windowSize, inputBuffer)
    /\ UNCHANGED <<windowSize, hanningWindow, inputBuffer, track, amplitudes,
                   frames, mags, reads>>
    /\ UNCHANGED others
    /\ \E impulse \in {Reconstruct(amplitudes, windowSize)} :
          IF ~impulse.ok
          THEN Thrown("TypeError")
          ELSE \E outputBuffer \in {CopyOutput(impulse.X, windowSize)} :
                  /\ unnormalized' = outputBuffer
                  /\ result' = normalize(outputBuffer, windowSize)
                  /\ pc' = "returned"
                  /\ UNCHANGED error

\* A call of process on some input.
Process == pc = "ready" /\ \E input \in Inputs : Call(input)

Next ==
    \/ Process
    \/ Frame
    \/ Finish

Spec == Init /\ [][Next]_vars

\* ------------------------------------------------------ claims under Spec
\* A positive power of two.
RECURSIVE IsPowerOfTwo(_)
IsPowerOfTwo(n) == n = 1 \/ (n > 1 /\ n % 2 = 0 /\ IsPowerOfTwo(n \div 2))

\* C1: once process has been called under a window size that is not a
\* positive power of two, the call has thrown InvalidWindowSize, and it did
\* so before a frame was windowed, a sample was read, a transform was run or
\* an output was produced.
C1_InvalidWindowSizeFirst ==
    (pc # "ready" /\ ~IsPowerOfTwo(windowSize)) =>
        /\ pc = "thrown"
        /\ error = "InvalidWindowSize"
        /\ frames = <<>>
        /\ reads = {}
        /\ mags = <<>>
        /\ result = NoBuffer

\* C2: when channel 0 holds fewer samples than the window size, the call has
\* thrown the length guard's error before any frame was taken or any sample
\* read, and no output buffer, full or partial, exists.
C2_LengthGuard ==
    (pc # "ready" /\ Length(inputBuffer[0]) < windowSize) =>
        /\ pc = "thrown"
        /\ error = TooShort
        /\ frames = <<>>
        /\ reads = {}
        /\ mags = <<>>
        /\ unnormalized = NoBuffer
        /\ result = NoBuffer

\* A call refused by the length guard with an input one sample short.
C2_Witness ==
    /\ pc = "thrown"
    /\ error = TooShort
    /\ windowSize = 2
    /\ Length(inputBuffer[0]) = 1

\* C3: when any input channel is shorter than the window size the call has
\* thrown the length guard's error and produced no output, and no sample is
\* ever read at an index outside its channel.
C3_EveryChannelGuarded ==
    /\ (pc # "ready" /\ \E c \in DOMAIN inputBuffer :
                            Length(inputBuffer[c]) < windowSize) =>
           /\ pc = "thrown"
           /\ error = TooShort
           /\ unnormalized = NoBuffer
           /\ result = NoBuffer
    /\ \A r \in reads :
           r[1] \in DOMAIN inputBuffer /\ r[2] \in DOMAIN inputBuffer[r[1]]

\* C9 as stated: a call on power-of-two window size and channels that are
\* all long enough returns, with one output channel per input channel, each
\* of exactly windowSize samples.
C9_OneChannelPerInput ==
    /\ pc = "returned" =>
           /\ DOMAIN result = DOMAIN inputBuffer
           /\ \A c \in DOMAIN result : DOMAIN result[c] = 0..(windowSize - 1)
    /\ ~(/\ pc = "thrown"
         /\ IsPowerOfTwo(windowSize)
         /\ \A c \in DOMAIN inputBuffer : Length(inputBuffer[c]) >= windowSize)

\* C9, amended: a returned buffer has exactly two channels whatever the
\* number of input channels, that number is at least two, and each returned
\* channel has exactly windowSize samples; a call on a single channel with a
\* window size of two or more throws a TypeError.
C9_TwoChannels ==
    /\ pc = "returned" =>
           /\ DOMAIN result = 0..1
           /\ Length(inputBuffer) >= 2
           /\ \A c \in DOMAIN result : DOMAIN result[c] = 0..(windowSize - 1)
    /\ (/\ pc \in {"returned", "thrown"}
        /\ Length(inputBuffer) = 1
        /\ windowSize >= 2
        /\ Length(inputBuffer[0]) >= windowSize) =>
           (pc = "thrown" /\ error = "TypeError" /\ result = NoBuffer)

\* A buffer returned for an input of three channels.
C9_Witness ==
    /\ pc = "returned"
    /\ Length(inputBuffer) = 3
    /\ windowSize = 2
    /\ Length(result) = 2

\* The input with sample k of channel c changed.
FlipAt(input, c, k) ==
    [d \in DOMAIN input |->
        IF d = c THEN [i \in DOMAIN input[d] |->
                          IF i = k THEN 1 - input[d][i] ELSE input[d][i]]
        ELSE input[d]]
\* The input with sample k of channels 0 and 1 exchanged.
SwapAt(input, k) ==
    [d \in DOMAIN input |->
        IF d < 2 THEN [i \in DOMAIN input[d] |->
                          IF i = k THEN input[1 - d][i] ELSE input[d][i]]
        ELSE input[d]]
\* The inputs that differ from input in one sample of channel c.
EditsOf(input, c) == {FlipAt(input, c, k) : k \in DOMAIN input[c]}
\* Inputs with the channel-0 length and the sums of channels 0 and 1 of
\* input: itself, its first two channels, and those with one sample exchanged
\* between channels 0 and 1.
SameSums(input) ==
    {input, [c \in 0..1 |-> input[c]]}
    \cup {SwapAt(input, k) : k \in DOMAIN input[0] \cap DOMAIN input[1]}

C10_OffsetIncreases ==
    \A k \in 1..(Len(frames) - 1) : frames[k] < frames[k + 1]

\* ------------------------------------------------------- several calls
\* Calls of process one after another, on one instance or on instances
\* constructed in between.  One earlier call is remembered, with the number
\* of calls finished since.
CallSizes == {2, 3}
CallInputs == UNION {[0..1 -> [0..(n - 1) -> SampleValues]] : n \in 2..MaxCallLen}

InitCalls ==
    /\ windowSize \in CallSizes
    /\ hanningWindow = createHanningWindow(windowSize)
    /\ pc = "ready"
    /\ inputBuffer = NoBuffer
    /\ track = 0
    /\ amplitudes = EmptyArray
    /\ frames = <<>>
    /\ mags = <<>>
    /\ reads = {}
    /\ unnormalized = NoBuffer
    /\ result = NoBuffer
    /\ error = "none"
    /\ remembered = NoCall
    /\ FftIdle
    /\ MaskIdle
    /\ DriverIdle
    /\ ReorderIdle

ProcessCalls == pc = "ready" /\ \E input \in CallInputs : Call(input)

\* new PuriFIR(ws): the constructor stores the size and the window.
Construct(ws) ==
    /\ windowSize' = ws
    /\ hanningWindow' = createHanningWindow(ws)
    /\ UNCHANGED <<pc, inputBuffer, track, amplitudes, frames, mags, reads,
                   unnormalized, result, error>>

\* The caller moves on to another instance.
NewInstance ==
    /\ pc = "ready"
    /\ \E ws \in CallSizes \ {windowSize} : Construct(ws)
    /\ UNCHANGED others

\* The call that has just ended, as it is remembered.
ThisCall == [set |-> TRUE, calls |-> 0, windowSize |-> windowSize,
             inputBuffer |-> inputBuffer, pc |-> pc, error |-> error,
             result |-> result]

\* A call has ended and the caller is ready for the next one; the ended call
\* is remembered when none is yet, or not.
Again ==
    /\ pc \in {"returned", "thrown"}
    /\ remembered.set => remembered.calls < MaxCalls
    /\ pc' = "ready"
    /\ inputBuffer' = NoBuffer
    /\ frames' = <<>>
    /\ mags' = <<>>
    /\ reads' = {}
    /\ unnormalized' = NoBuffer
    /\ result' = NoBuffer
    /\ error' = "none"
    /\ UNCHANGED <<windowSize, hanningWindow, track, amplitudes>>
    /\ remembered' \in
           IF remembered.set
           THEN {[remembered EXCEPT !.calls = @ + 1]}
           ELSE {NoCall, ThisCall}
    /\ UNCHANGED <<fftVars, maskVars, driverVars, reorderVars>>

NextCalls ==
    \/ ProcessCalls
    \/ Frame
    \/ Finish
    \/ NewInstance
    \/ Again

SpecCalls == InitCalls /\ [][NextCalls]_vars

\* C11: a call that ends on the input and the window size of a remembered
\* call ends as that call did: both return, with equal buffers, or both
\* throw the same error, whatever calls and instances came in between.
C11_Determinism ==
    (/\ pc \in {"returned", "thrown"}
     /\ remembered.set
     /\ remembered.inputBuffer = inputBuffer
     /\ remembered.windowSize = windowSize) =>
        /\ remembered.pc = pc
        /\ remembered.error = error
        /\ remembered.result = result

\* A call returns a non-silent buffer on the input of a remembered call,
\* with another call in between.
C11_Witness ==
    /\ pc = "returned"
    /\ remembered.set
    /\ remembered.calls >= 1
    /\ remembered.inputBuffer = inputBuffer
    /\ remembered.windowSize = windowSize
    /\ remembered.result = result
    /\ result[0][0] = One

\* The instance and the argument are left alone by the steps of a call.
C12_Step ==
    /\ hanningWindow' = hanningWindow
    /\ windowSize' = windowSize
    /\ pc = "loop" => inputBuffer' = inputBuffer
\* The steps that construct an instance or take the next argument.
C12_Outside == (pc = "ready" /\ pc' = "ready") \/ pc \in {"returned", "thrown"}
\* The envelope and the offset are new when the loop of a call begins.
C12_Fresh ==
    /\ hanningWindow = createHanningWindow(windowSize)
    /\ (pc = "loop" /\ frames = <<>>) =>
           /\ track = 0
           /\ amplitudes = [i \in 0..(windowSize - 1) |-> Zero]

\* C12: a call of process changes neither windowSize nor the window, which
\* stays the one the constructor computed, nor its argument; the envelope and
\* the offset of a call are new, whatever earlier calls left behind.
C12_FrameEffect == [](C12_Fresh) /\ [][C12_Outside \/ C12_Step]_vars

\* A call begins its loop right after a call that returned a buffer that is
\* not silent, and so left an envelope that is not 0.
C12_Witness ==
    /\ pc = "loop"
    /\ frames = <<>>
    /\ remembered.set
    /\ remembered.calls = 0
    /\ remembered.pc = "returned"
    /\ remembered.result[0][0] = One
    /\ amplitudes[0] = Zero

\* ------------------------------------------------ the envelope extraction
\* The loop of process on window sizes 2 and 4 and two channels of up to
\* MaxExtractLen samples, followed to the end of the loop; the magnitudes of
\* a 4-sample frame are exact surds.
ExtractSizes == {2, 4}
ExtractInputs == [0..1 -> ChannelsUpTo(MaxExtractLen)]

InitExtract ==
    /\ windowSize \in ExtractSizes
    /\ hanningWindow = createHanningWindow(windowSize)
    /\ pc = "ready"
    /\ inputBuffer = NoBuffer
    /\ track = 0
    /\ amplitudes = EmptyArray
    /\ frames = <<>>
    /\ mags = <<>>
    /\ reads = {}
    /\ unnormalized = NoBuffer
    /\ result = NoBuffer
    /\ error = "none"
    /\ OthersIdle

ProcessExtract == pc = "ready" /\ \E input \in ExtractInputs : Call(input)

\* The loop condition fails: the envelope is complete.
LoopEnd ==
    /\ pc = "loop"
    /\ ~LoopCond(track, windowSize, inputBuffer)
    /\ pc' = "extracted"
    /\ UNCHANGED <<windowSize, hanningWindow, inputBuffer, track, amplitudes,
                   frames, mags, reads, unnormalized, result, error>>
    /\ UNCHANGED others

NextExtract ==
    \/ ProcessExtract
    \/ Frame
    \/ LoopEnd

SpecExtract == InitExtract /\ [][NextExtract]_vars

\* ------------------------------------------------------- the frame loop
\* The control of the loop at the device's default window size, 2048, on silent
\* two-channel inputs whose lengths lie around the multiples of 1024: the
\* offsets and the reads of each iteration, which do not depend on the
\* samples; the transform of a 2048-sample frame is left out.
DefaultWindowSize == 2048
FrameLengths ==
    {k * jump(DefaultWindowSize) + d : k \in 2..MaxBlocks, d \in (-FrameSlack)..FrameSlack}

InitFrames ==
    /\ windowSize = DefaultWindowSize
    /\ hanningWindow = EmptyArray
    /\ pc = "ready"
    /\ inputBuffer = NoBuffer
    /\ track = 0
    /\ amplitudes = EmptyArray
    /\ frames = <<>>
    /\ mags = <<>>
    /\ reads = {}
    /\ unnormalized = NoBuffer
    /\ result = NoBuffer
    /\ error = "none"
    /\ OthersIdle

ProcessFrames ==
    pc = "ready" /\ \E L \in FrameLengths : Call([c \in 0..1 |-> Silent(L)])

\* One iteration of the loop, its offset and reads.
FrameControl ==
    /\ pc = "loop"
    /\ LoopCond(track, windowSize, inputBuffer)
    /\ frames' = Append(frames, track)
    /\ reads' = reads \cup FrameReads(track, windowSize)
    /\ track' = track + jump(windowSize)
    /\ UNCHANGED <<pc, windowSize, hanningWindow, inputBuffer, amplitudes, mags,
                   unnormalized, result, error>>
    /\ UNCHANGED others

NextFrames ==
    \/ ProcessFrames
    \/ FrameControl
    \/ LoopEnd

SpecFrames == InitFrames /\ [][NextFrames]_vars

\* ------------------------------------------------------------- normalize
\* normalize on the buffers process hands it: two channels of windowSize
\* samples, here integers of magnitude at most MaxNormSample.
NormSamples == {Num(n) : n \in (-MaxNormSample)..MaxNormSample}
NormBuffers(ws) == [0..1 -> [0..(ws - 1) -> NormSamples]]

InitNorm ==
    /\ windowSize \in 1..MaxNormLen
    /\ unnormalized \in NormBuffers(windowSize)
    /\ hanningWindow = EmptyArray
    /\ pc = "normalize"
    /\ inputBuffer = NoBuffer
    /\ track = 0
    /\ amplitudes = EmptyArray
    /\ frames = <<>>
    /\ mags = <<>>
    /\ reads = {}
    /\ result = NoBuffer
    /\ error = "none"
    /\ OthersIdle

\* this.normalize(outputBuffer); return outputBuffer
Normalize ==
    /\ pc = "normalize"
    /\ result' = normalize(unnormalized, windowSize)
    /\ pc' = "returned"
    /\ UNCHANGED <<windowSize, hanningWindow, inputBuffer, track, amplitudes,
                   frames, mags, reads, unnormalized, error>>
    /\ UNCHANGED others

NextNorm == Normalize

SpecNorm == InitNorm /\ [][NextNorm]_vars

\* The samples of a buffer, and their absolute values.
SamplesOf(buffer) == {buffer[c][i] : c \in DOMAIN buffer, i \in 0..(windowSize - 1)}
AbsSamplesOf(buffer) == {RAbs(x) : x \in SamplesOf(buffer)}

\* C7: with max the greatest |sample| of the buffer over both channels and
\* all windowSize samples: if max > 0 every sample of the result is the
\* sample divided by max, the greatest |sample| of the result is 1 and every
\* sample lies in [-1, 1]; if max = 0 the result is the buffer unchanged.  So
\* the greatest |sample| of the result is 0 or 1.
C7_Normalize ==
    pc = "returned" =>
        \E max \in AbsSamplesOf(unnormalized) :
            /\ IsGreatest(max, AbsSamplesOf(unnormalized))
            /\ IF RGt(max, Zero)
               THEN /\ \A c \in 0..1 : \A i \in 0..(windowSize - 1) :
                           /\ result[c][i] = RDiv(unnormalized[c][i], max)
                           /\ ~RGt(result[c][i], One)
                           /\ ~RLt(result[c][i], Num(-1))
                    /\ IsGreatest(One, AbsSamplesOf(result))
               ELSE /\ result = unnormalized
                    /\ AbsSamplesOf(result) = {Zero}

\* A normalized buffer whose greatest sample magnitude, 2, was in channel 1,
\* with a sample scaled to a half.
C7_Witness ==
    /\ pc = "returned"
    /\ windowSize = 2
    /\ IsGreatest(Num(2), AbsSamplesOf(unnormalized))
    /\ \A i \in 0..1 : RGt(Num(2), RAbs(unnormalized[0][i]))
    /\ \E i \in 0..1 : result[0][i] = Rat(<<1, 2>>)

\* The offsets of the full frames of a channel of L samples.
FullFrameOffsets(L, N) == {t \in 0..L : t % (N \div 2) = 0 /\ t + N <= L}
\* The inputs that differ from input in one sample at index from or later.
TailEdits(input, from) ==
    UNION {{FlipAt(input, c, k) : k \in {i \in DOMAIN input[c] : i >= from}} :
              c \in 0..1}

BinHistory(i) == {Zero} \cup {mags[k][i] : k \in 1..Len(mags)}

\* C6: the envelope is 0 in every bin before the first frame; in the loop
\* and after it each bin is the greatest of 0 and that bin's magnitudes in
\* the frames analysed so far, and is not below any of them.
C6_PeakHold ==
    pc \in {"loop", "extracted"} =>
        /\ frames = <<>> => \A i \in 0..(windowSize - 1) : amplitudes[i] = Zero
        /\ \A i \in 0..(windowSize - 1) :
               /\ IsGreatest(amplitudes[i], BinHistory(i))
               /\ \A k \in 1..Len(mags) : ~RLt(amplitudes[i], mags[k][i])

\* A finished loop of two frames or more whose second frame exceeds the
\* first in bin 0, and whose envelope holds the second frame's value there.
C6_Witness ==
    /\ pc = "extracted"
    /\ Len(mags) >= 2
    /\ RGt(mags[2][0], mags[1][0])
    /\ amplitudes[0] = mags[Len(mags)][0]
    /\ amplitudes[0] # mags[1][0]

\* ---------------------------------------------------------- fft and ifft
\* fft and ifft on complex sequences of 1, 2 and 4 elements whose parts are
\* integers of 0..MaxPart; beside the sequential fft, the butterflies of each
\* stage are run one at a time in any order on a second array.
FftSizes == {1, 2, 4}
FftValues == {Cx(Num(a), Num(b)) : a \in 0..MaxPart, b \in 0..MaxPart}
FftInputs == UNION {[0..(n - 1) -> FftValues] : n \in FftSizes}

InitFft ==
    /\ pc = "fft"
    /\ signal \in FftInputs
    /\ spectrum = Ok(EmptyArray)
    /\ restored = Ok(EmptyArray)
    /\ work = EmptyArray
    /\ stage = 0
    /\ done = {}
    /\ windowSize = 0
    /\ hanningWindow = EmptyArray
    /\ inputBuffer = NoBuffer
    /\ track = 0
    /\ amplitudes = EmptyArray
    /\ frames = <<>>
    /\ mags = <<>>
    /\ reads = {}
    /\ unnormalized = NoBuffer
    /\ result = NoBuffer
    /\ error = "none"
    /\ CallsIdle
    /\ MaskIdle
    /\ DriverIdle
    /\ ReorderIdle

FftFrame == <<windowSize, hanningWindow, inputBuffer, track, amplitudes, frames,
              mags, reads, unnormalized, result, error, remembered, maskVars,
              driverVars, reorderVars>>

\* X = fft(x); the second array starts from the same bit-reversed copy.
Forward ==
    /\ pc = "fft"
    /\ spectrum' = fft(signal)
    /\ work' = fftReorder(signal, Length(signal), FloorLog2(Length(signal)))
    /\ stage' = 1
    /\ done' = {}
    /\ pc' = "stages"
    /\ UNCHANGED <<signal, restored>>
    /\ UNCHANGED FftFrame

\* One butterfly of the current stage that has not run yet.
ButterflyStep ==
    /\ pc = "stages"
    /\ stage <= FloorLog2(Length(signal))
    /\ \E p \in StagePairs(stage, Length(signal)) \ done :
          /\ work' = Butterfly(work, TwiddlePower(2 ^ (stage - 1), p[1]), p[2],
                               2 ^ (stage - 1))
          /\ done' = done \cup {p}
    /\ UNCHANGED <<pc, signal, spectrum, restored, stage>>
    /\ UNCHANGED FftFrame

\* All butterflies of the stage have run: the next stage begins.
StageEnd ==
    /\ pc = "stages"
    /\ stage <= FloorLog2(Length(signal))
    /\ done = StagePairs(stage, Length(signal))
    /\ stage' = stage + 1
    /\ done' = {}
    /\ UNCHANGED <<pc, signal, spectrum, restored, work>>
    /\ UNCHANGED FftFrame

\* x = ifft(X)
Inverse ==
    /\ pc = "stages"
    /\ stage > FloorLog2(Length(signal))
    /\ restored' = ifft(spectrum.X)
    /\ pc' = "restored"
    /\ UNCHANGED <<signal, spectrum, work, stage, done>>
    /\ UNCHANGED FftFrame

NextFft ==
    \/ Forward
    \/ ButterflyStep
    \/ StageEnd
    \/ Inverse

SpecFft == InitFft /\ [][NextFft]_vars

\* exp(sign * 2 * PI * i * e / n) for n in {1, 2, 4}: a power of i.
UnitRoot(n, e, sign) ==
    LET quarter == ((e % n) * (4 \div n)) % 4
    IN CASE quarter = 0 -> Cx(One, Zero)
         [] quarter = 1 -> Cx(Zero, Num(sign))
         [] quarter = 2 -> Cx(Num(-1), Zero)
         [] quarter = 3 -> Cx(Zero, Num(-sign))
\* The sum over n >= from of x[n] * exp(sign * 2 * PI * i * k * n / N).
RECURSIVE DftFrom(_, _, _, _)
DftFrom(seq, k, sign, from) ==
    IF from >= Length(seq) THEN Cx(Zero, Zero)
    ELSE complexAdd(complexMultiply(seq[from], UnitRoot(Length(seq), k * from, sign)),
                    DftFrom(seq, k, sign, from + 1))
Dft(seq, k, sign) == DftFrom(seq, k, sign, 0)

C14_RoundTrip ==
    pc = "restored" =>
        /\ restored.ok
        /\ restored.X = signal

\* A round trip of 4 elements with imaginary parts that are not 0, through a
\* spectrum that differs from them.
C14_Witness ==
    /\ pc = "restored"
    /\ Length(signal) = 4
    /\ \E n \in DOMAIN signal : signal[n].im # Zero
    /\ spectrum.X # signal
    /\ restored.X = signal

\* The butterflies of stage s on n elements touch pairwise disjoint index
\* pairs {k, k + m2} that lie below n and together cover 0..n-1.
DisjointCover(s, n) ==
    LET m2 == 2 ^ (s - 1)
        P == StagePairs(s, n)
    IN /\ \A p \in P : p[2] + m2 < n
       /\ \A p \in P : \A q \in P \ {p} :
              {p[2], p[2] + m2} \cap {q[2], q[2] + m2} = {}
       /\ UNION {{p[2], p[2] + m2} : p \in P} = 0..(n - 1)

\* C20: for n a power of two up to 2^MaxStageLog the butterflies of every
\* stage are disjoint and cover every index; and when the butterflies of each
\* stage have run in any order, one stage after the other, the array is the
\* one the sequential fft returns.
C20_ButterflyOrder ==
    /\ \A e \in 1..MaxStageLog : \A s \in 1..e : DisjointCover(s, 2 ^ e)
    /\ (pc \in {"stages", "restored"} /\ stage > FloorLog2(Length(signal))) =>
           work = spectrum.X

\* In stage 2 of 4 elements the butterfly of j = 1 has run before that of
\* j = 0.
C20_Witness ==
    /\ pc = "stages"
    /\ Length(signal) = 4
    /\ stage = 2
    /\ done = {<<1, 1>>}
    /\ work # fftReorder(signal, 4, 2)

\* ------------------------------------------------------ the reconstruction
\* process on window sizes 2 and 4 and two channels, the first of up to
\* MaxImpulseLen samples and the second no longer than the first, followed
\* up to the call of normalize: the phases of a 4-bin envelope are kept as
\* cosine and sine terms.
ImpulseSizes == {2, 4}
ImpulseInputs ==
    UNION {{[c \in 0..1 |-> IF c = 0 THEN left ELSE right] :
                left \in [0..(n - 1) -> SampleValues],
                right \in UNION {[0..(m - 1) -> SampleValues] : m \in 0..n}} :
           n \in 2..MaxImpulseLen}

InitImpulse ==
    /\ windowSize \in ImpulseSizes
    /\ hanningWindow = createHanningWindow(windowSize)
    /\ pc = "ready"
    /\ inputBuffer = NoBuffer
    /\ track = 0
    /\ amplitudes = EmptyArray
    /\ frames = <<>>
    /\ mags = <<>>
    /\ reads = {}
    /\ unnormalized = NoBuffer
    /\ result = NoBuffer
    /\ error = "none"
    /\ OthersIdle

ProcessImpulse == pc = "ready" /\ \E input \in ImpulseInputs : Call(input)

\* The loop has ended: the reconstruction and the copy of the real parts of
\* the impulse into both output channels.
Rebuild ==
    /\ pc = "loop"
    /\ ~LoopCond(track, windowSize, inputBuffer)
    /\ UNCHANGED <<windowSize, hanningWindow, inputBuffer, track, amplitudes,
                   frames, mags, reads, result>>
    /\ UNCHANGED others
    /\ \E impulse \in {Reconstruct(amplitudes, windowSize)} :
          IF ~impulse.ok
          THEN /\ pc' = "thrown"
               /\ error' = "TypeError"
               /\ UNCHANGED unnormalized
          ELSE /\ unnormalized' = CopyOutput(impulse.X, windowSize)
               /\ pc' = "rebuilt"
               /\ UNCHANGED error

NextImpulse ==
    \/ ProcessImpulse
    \/ Frame
    \/ Rebuild

SpecImpulse == InitImpulse /\ [][NextImpulse]_vars

\* The phases the reconstruction gives the bins of an envelope.
PhasesOf(amp, ws) ==
    MinPhase(ifft(CepstrumHilbert(fft(LogMagnitude(amp, ws)).X, HilbertMask(ws), ws)).X, ws)

\* C15 as stated: for every envelope the extraction leaves, the impulse of
\* the reconstruction has no imaginary part, and the forward transform of
\* the real parts that process keeps of it (the un-normalized output) has in
\* every bin the magnitude the envelope has there.
C15_MagnitudePreserved ==
    pc = "rebuilt" =>
        /\ \A i \in 0..(windowSize - 1) :
              getImaginary(Reconstruct(amplitudes, windowSize).X[i]) = Zero
        /\ \A c \in 0..1 :
              /\ fft(unnormalized[c]).ok
              /\ \A i \in 0..(windowSize - 1) :
                    abs(fft(unnormalized[c]).X[i]) = amplitudes[i]
\* An envelope has been reconstructed from two channels that are both as
\* long as the window, the second shorter than the first: the envelope is
\* NaN, and so are the phases, the imaginary part of the impulse and the
\* samples kept of it.
C15_Witness ==
    /\ pc = "rebuilt"
    /\ windowSize = 2
    /\ Length(inputBuffer[0]) = 3
    /\ Length(inputBuffer[1]) = 2
    /\ \A i \in 0..1 :
          /\ IsNaN(amplitudes[i])
          /\ IsNaN(PhasesOf(amplitudes, 2)[i])
          /\ IsNaN(getImaginary(Reconstruct(amplitudes, 2).X[i]))
          /\ IsNaN(unnormalized[0][i])

\* ------------------------------------------------------- a single impulse
\* process, to its end, on window sizes 2 and 4 and two channels of the same
\* length, up to MaxSpikeLen samples, that are silent but for one sample at
\* the same place in both.
SpikeSizes == {2, 4}
Spike(n, p, v) == [i \in 0..(n - 1) |-> IF i = p THEN v ELSE 0]
SpikeInputs ==
    UNION {{[c \in 0..1 |-> Spike(n, p, v[c])] :
               p \in 0..(n - 1), v \in [0..1 -> SampleValues]} :
           n \in 2..MaxSpikeLen}

InitSpike ==
    /\ windowSize \in SpikeSizes
    /\ hanningWindow = createHanningWindow(windowSize)
    /\ pc = "ready"
    /\ inputBuffer = NoBuffer
    /\ track = 0
    /\ amplitudes = EmptyArray
    /\ frames = <<>>
    /\ mags = <<>>
    /\ reads = {}
    /\ unnormalized = NoBuffer
    /\ result = NoBuffer
    /\ error = "none"
    /\ OthersIdle

ProcessSpike == pc = "ready" /\ \E input \in SpikeInputs : Call(input)

NextSpike ==
    \/ ProcessSpike
    \/ Frame
    \/ Finish

SpecSpike == InitSpike /\ [][NextSpike]_vars

\* process has returned from an input of windowSize samples whose channels
\* both are a unit impulse at sample p.
UnitImpulseAt(p) ==
    /\ pc = "returned"
    /\ inputBuffer = [c \in 0..1 |-> Spike(windowSize, p, 1)]
\* A buffer of two channels of zeros but for the value v at sample 0.
ImpulseBuffer(v) == [c \in 0..1 |-> [i \in 0..(windowSize - 1) |-> IF i = 0 THEN v ELSE Zero]]

\* C16 as stated: from a unit impulse at sample 0 the envelope is 1 in every
\* bin and the output is not silent.
C16_FlatUnitEnvelope ==
    UnitImpulseAt(0) =>
        /\ \A i \in 0..(windowSize - 1) : amplitudes[i] = One
        /\ \E i \in 0..(windowSize - 1) : result[0][i] # Zero
\* C16: from an input of windowSize samples that is a unit impulse at sample
\* p the envelope is the window's coefficient at p in every bin; the window
\* is 0 at sample 0, so from a unit impulse at sample 0 the envelope is 0 in
\* every bin and the output is silent, while from one at a sample p >= 1 the
\* output is a unit impulse at sample 0, whose magnitude spectrum is flat.
C16_WindowedImpulse ==
    \A p \in 0..(windowSize - 1) :
        UnitImpulseAt(p) =>
            /\ \A i \in 0..(windowSize - 1) : amplitudes[i] = hanningWindow[p]
            /\ p = 0 => /\ hanningWindow[p] = Zero
                        /\ unnormalized = ImpulseBuffer(Zero)
                        /\ result = ImpulseBuffer(Zero)
            /\ p >= 1 => /\ RGt(hanningWindow[p], Zero)
                         /\ unnormalized = ImpulseBuffer(hanningWindow[p])
                         /\ result = ImpulseBuffer(One)
                         /\ \A i \in 0..(windowSize - 1) :
                               abs(fft(result[0]).X[i]) = One
\* process has returned a silent output from a unit impulse at sample 0 of
\* four samples.
C16_Witness ==
    /\ UnitImpulseAt(0)
    /\ windowSize = 4
    /\ frames = <<0>>
    /\ result = ImpulseBuffer(Zero)

\* --------------------------------------------------------- the Hilbert mask
\* The mask of process and its product with a cepstrum, on window sizes
\* 2..2^MaxMaskLog; the cepstrum has one value in one bin and another value
\* in all the others.  The window, which these steps do not read, is left
\* out.
MaskSizes == {2 ^ e : e \in 1..MaxMaskLog}
MaskValues == {Cx(One, Zero), Cx(Num(-1), Num(2)), Cx(Rat(<<1, 2>>), Num(-3))}
MaskInputs(ws) ==
    {[i \in 0..(ws - 1) |-> IF i = k THEN a ELSE b] :
        k \in 0..(ws - 1), a \in MaskValues, b \in MaskValues}

InitMask ==
    /\ pc = "cepstrum"
    /\ windowSize \in MaskSizes
    /\ cepstrum \in MaskInputs(windowSize)
    /\ H = EmptyArray
    /\ cepstrumHilbert = EmptyArray
    /\ hanningWindow = EmptyArray
    /\ inputBuffer = NoBuffer
    /\ track = 0
    /\ amplitudes = EmptyArray
    /\ frames = <<>>
    /\ mags = <<>>
    /\ reads = {}
    /\ unnormalized = NoBuffer
    /\ result = NoBuffer
    /\ error = "none"
    /\ CallsIdle
    /\ FftIdle
    /\ DriverIdle
    /\ ReorderIdle

MaskFrame == <<windowSize, hanningWindow, inputBuffer, track, amplitudes, frames,
               mags, reads, unnormalized, result, error, remembered, fftVars,
               driverVars, reorderVars>>

\* H is allocated, zeroed and filled.
BuildMask ==
    /\ pc = "cepstrum"
    /\ H' = HilbertMask(windowSize)
    /\ pc' = "mask"
    /\ UNCHANGED <<cepstrum, cepstrumHilbert>>
    /\ UNCHANGED MaskFrame

\* cepstrumHilbert[i] = cepstrum[i] * H[i]
ApplyMask ==
    /\ pc = "mask"
    /\ cepstrumHilbert' = CepstrumHilbert(cepstrum, H, windowSize)
    /\ pc' = "masked"
    /\ UNCHANGED <<cepstrum, H>>
    /\ UNCHANGED MaskFrame

NextMask ==
    \/ BuildMask
    \/ ApplyMask

SpecMask == InitMask /\ [][NextMask]_vars

\* C19: the mask has windowSize entries, 1 at bins 0 and windowSize / 2, 2
\* between them and 0 beyond; the masked cepstrum is the cepstrum at bins 0
\* and windowSize / 2, is zero in every bin beyond windowSize / 2, and is
\* twice the cepstrum in between.
C19_HilbertMask ==
    LET half == windowSize \div 2
    IN /\ pc \in {"mask", "masked"} =>
             /\ DOMAIN H = 0..(windowSize - 1)
             /\ H[0] = One
             /\ H[half] = One
             /\ \A i \in 1..(half - 1) : H[i] = Num(2)
             /\ \A i \in (half + 1)..(windowSize - 1) : H[i] = Zero
       /\ pc = "masked" =>
             /\ DOMAIN cepstrumHilbert = 0..(windowSize - 1)
             /\ cepstrumHilbert[0] = cepstrum[0]
             /\ cepstrumHilbert[half] = cepstrum[half]
             /\ \A i \in 1..(half - 1) :
                   cepstrumHilbert[i] = complexAdd(cepstrum[i], cepstrum[i])
             /\ \A i \in (half + 1)..(windowSize - 1) :
                   cepstrumHilbert[i] = Cx(Zero, Zero)
\* A cepstrum of eight bins whose bin 5 is not zero has been masked.
C19_Witness ==
    /\ pc = "masked"
    /\ windowSize = 8
    /\ cepstrum[5] # Cx(Zero, Zero)
    /\ cepstrum[5] # cepstrum[4]
    /\ cepstrumHilbert[5] = Cx(Zero, Zero)

\* --------------------------------------------------------- the host driver
\* The function process of the host script, in its two revisions, on a
\* buffer "input" of 1..MaxHostChannels channels of 1..MaxHostFrames frames,
\* each channel silent, full, or an impulse.  The calls it makes on the
\* host are recorded in order.  The instance it constructs is the one of the
\* initial state: the constructor touches nothing of the host and does not
\* throw.
Variants == {"part_000", "part_001"}
DriverSizes == {2, 3}
HostChannels(f) ==
    {[i \in 0..(f - 1) |-> 0], [i \in 0..(f - 1) |-> 1], Spike(f, 0, 1)}
HostInputs ==
    UNION {[0..(c - 1) -> HostChannels(f)] :
              c \in 1..MaxHostChannels, f \in 1..MaxHostFrames}

\* A call on the host: inputBuffer.peek(ch, 0, frameCount), wet.send("clear"),
\* wet.send("sizeinsamps", n), wet.poke(ch, 0, samples) with n the length of
\* samples or -1 when samples is undefined, post(text),
\* messnamed("save4drag", path).
Event(op, ch, n, text) == [op |-> op, ch |-> ch, n |-> n, text |-> text]
Peek(ch) == Event("peek", ch, 0, "")
Clear == Event("clear", 0, 0, "")
SizeInSamps(n) == Event("sizeinsamps", 0, n, "")
Poke(ch, n) == Event("poke", ch, n, "")
Post(text) == Event("post", 0, 0, text)
Save4Drag == Event("save4drag", 0, 0, "")
\* post("Error: " + error.message)
PostError(e) == Post(e)

channelCount == Cardinality(DOMAIN hostInput)

InitDriver ==
    /\ variant \in Variants
    /\ driverPc = "start"
    /\ hostInput \in HostInputs
    /\ driverInput = <<>>
    /\ events = <<>>
    /\ windowSize \in DriverSizes
    /\ hanningWindow = createHanningWindow(windowSize)
    /\ pc = "ready"
    /\ inputBuffer = NoBuffer
    /\ track = 0
    /\ amplitudes = EmptyArray
    /\ frames = <<>>
    /\ mags = <<>>
    /\ reads = {}
    /\ unnormalized = NoBuffer
    /\ result = NoBuffer
    /\ error = "none"
    /\ CallsIdle
    /\ FftIdle
    /\ MaskIdle
    /\ ReorderIdle

DriverFrame == <<core, remembered, fftVars, maskVars, reorderVars, variant, hostInput>>

\* The channels are read, one peek each, and a single channel is copied
\* into a second one.
DriverRead ==
    /\ driverPc = "start"
    /\ events' = events \o [i \in 1..channelCount |-> Peek(i)]
    /\ driverInput' = IF channelCount = 1
                      THEN [c \in 0..1 |-> hostInput[0]]
                      ELSE hostInput
    /\ driverPc' = "read"
    /\ UNCHANGED DriverFrame

\* puriFIR.process(input)
DriverProcess ==
    /\ driverPc = "read"
    /\ pc = "ready"
    /\ Call(driverInput)

\* wet.poke(i + 1, 0, processed[i]) for i below k.
Pokes(k) ==
    [i \in 1..k |-> Poke(i, IF i - 1 \in DOMAIN result THEN Length(result[i - 1]) ELSE -1)]
\* A writing that pokes before it clears and resizes.
OutputWritesPokeFirst(k) == Pokes(k) \o <<Clear, SizeInSamps(Length(result[0]))>>
\* The output buffer is cleared, resized and written, one poke for each
\* channel of the input.
OutputWrites(k) == <<Clear, SizeInSamps(Length(result[0]))>> \o Pokes(k)

\* process has returned: the writing of the output.  From the third channel
\* on processed[i] is undefined, and the host either takes the poke or
\* throws, which the catch clause reports.
DriverWrite ==
    /\ driverPc = "read"
    /\ pc = "returned"
    /\ \/ /\ events' = events \o OutputWrites(channelCount)
          /\ driverPc' = "written"
       \/ /\ channelCount > 2
          /\ events' = events \o OutputWrites(3) \o <<PostError("poke")>>
          /\ driverPc' = "done"
    /\ UNCHANGED <<driverInput>>
    /\ UNCHANGED DriverFrame

\* The file is named and the save message sent (part_000; the lookup of the
\* input's file name on the host may throw), or the end is posted (part_001).
DriverSave ==
    /\ driverPc = "written"
    /\ driverPc' = "done"
    /\ IF variant = "part_000"
       THEN \/ events' = events \o <<Post("Final path"), Save4Drag, Post("Done processing")>>
            \/ events' = events \o <<PostError("getnamed")>>
       ELSE events' = events \o <<Post("Done processing")>>
    /\ UNCHANGED <<driverInput>>
    /\ UNCHANGED DriverFrame

\* A catch clause that clears the output buffer before it reports.
DriverCatchClears ==
    /\ driverPc = "read"
    /\ pc = "thrown"
    /\ events' = events \o <<Clear, PostError(error)>>
    /\ driverPc' = "done"
    /\ UNCHANGED <<driverInput>>
    /\ UNCHANGED DriverFrame

\* process has thrown: the catch clause posts the error.
DriverCatch ==
    /\ driverPc = "read"
    /\ pc = "thrown"
    /\ events' = events \o <<PostError(error)>>
    /\ driverPc' = "done"
    /\ UNCHANGED <<driverInput>>
    /\ UNCHANGED DriverFrame

NextDriver ==
    \/ DriverRead
    \/ DriverProcess
    \/ Frame
    \/ Finish
    \/ DriverWrite
    \/ DriverSave
    \/ DriverCatch

SpecDriver == InitDriver /\ [][NextDriver]_vars

\* The calls on the output side, in order.
OutputSide(e) == e.op \in {"clear", "sizeinsamps", "poke", "save4drag"}
OutputEvents == SelectSeq(events, OutputSide)
Rank(e) == CASE e.op = "clear" -> 1
             [] e.op = "sizeinsamps" -> 2
             [] e.op = "poke" -> 3
             [] e.op = "save4drag" -> 4
\* The number of calls e made so far.
Count(e) == Cardinality({i \in DOMAIN events : events[i] = e})

\* C17: nothing is done to the output side before process has returned; what
\* is done is one clear, then one resize, then the channel writes, then the
\* save message, which follows the writes of all channels; and when process
\* has thrown nothing is done to the output side and the driver ends by
\* posting the error.
C17_OutputAfterProcess ==
    LET out == OutputEvents
    IN /\ out # <<>> => pc = "returned"
       /\ Len(out) >= 1 => out[1] = Clear
       /\ Len(out) >= 2 => out[2] = SizeInSamps(windowSize)
       /\ \A i \in 1..(Len(out) - 1) :
             \/ Rank(out[i]) < Rank(out[i + 1])
             \/ out[i].op = "poke" /\ out[i + 1].op = "poke" /\ out[i].ch < out[i + 1].ch
       /\ Count(Save4Drag) > 0 =>
             \A ch \in 1..channelCount : \E i \in DOMAIN out : out[i].op = "poke" /\ out[i].ch = ch
       /\ pc = "thrown" =>
             /\ out = <<>>
             /\ driverPc = "done" => events[Len(events)] = PostError(error)
\* The driver has ended after a process that returned, with the clear, the
\* resize, two channel writes and the save message, in this order.
C17_Witness ==
    /\ driverPc = "done"
    /\ pc = "returned"
    /\ OutputEvents = <<Clear, SizeInSamps(2), Poke(1, 2), Poke(2, 2), Save4Drag>>
\* C18 as stated: each input channel is read exactly once, before process is
\* called; after a process that returned each output channel 1..c is written
\* exactly once with a sequence of windowSize samples; a single channel is
\* copied into a second one for process and one channel is written back.
C18_EveryChannelOnce ==
    /\ driverPc # "start" => \A ch \in 1..channelCount : Count(Peek(ch)) = 1
    /\ pc # "ready" => driverPc # "start"
    /\ (pc = "returned" /\ driverPc \in {"written", "done"}) =>
           \A ch \in 1..channelCount :
               /\ Count(Poke(ch, windowSize)) = 1
               /\ \A i \in DOMAIN events :
                     (events[i].op = "poke" /\ events[i].ch = ch) => events[i].n = windowSize
    /\ (channelCount = 1 /\ driverPc # "start") =>
           /\ driverInput = [c \in 0..1 |-> hostInput[0]]
           /\ \A i \in DOMAIN events : events[i].op = "poke" => events[i].ch = 1
\* The driver has written back after process returned from an input of three
\* channels: the third write carries no samples.
C18_Witness ==
    /\ channelCount = 3
    /\ driverPc = "written"
    /\ pc = "returned"
    /\ Count(Poke(1, windowSize)) = 1
    /\ Count(Poke(2, windowSize)) = 1
    /\ Count(Poke(3, -1)) = 1

\* ------------------------------------------------------- the reorder step
\* The bit-reversal copy of fft, one element at a time, on arrays of 1 up to
\* 2^MaxReorderLog elements that are all different: numbers, or complex
\* values.
ReorderSizes == 1..(2 ^ MaxReorderLog)
ReorderInputs ==
    UNION {{[i \in 0..(n - 1) |-> Num(i + 1)],
            [i \in 0..(n - 1) |-> Cx(Num(i + 1), Num(-i))]} : n \in ReorderSizes}

InitReorder ==
    /\ pc = "reorder"
    /\ source \in ReorderInputs
    /\ target = EmptyArray
    /\ position = 0
    /\ fetched = {}
    /\ windowSize = 0
    /\ hanningWindow = EmptyArray
    /\ inputBuffer = NoBuffer
    /\ track = 0
    /\ amplitudes = EmptyArray
    /\ frames = <<>>
    /\ mags = <<>>
    /\ reads = {}
    /\ unnormalized = NoBuffer
    /\ result = NoBuffer
    /\ error = "none"
    /\ CallsIdle
    /\ FftIdle
    /\ MaskIdle
    /\ DriverIdle

ReorderFrame == <<windowSize, hanningWindow, inputBuffer, track, amplitudes,
                  frames, mags, reads, unnormalized, result, remembered,
                  fftVars, maskVars, driverVars>>

\* x[rev] as it is stored in X: a number becomes { re: x[rev], im: 0 }.
Promote(v) == IF isComplex(v) THEN Cx(v.re, v.im) ELSE Cx(v, Zero)

\* One turn of the loop: X[i] = x[bitReverse(i, log2n)], promoted.  An
\* index outside x yields undefined, whose .re throws a TypeError.
ReorderStep ==
    /\ pc = "reorder"
    /\ position < Length(source)
    /\ \E rev \in {bitReverse(position, FloorLog2(Length(source)))} :
          /\ fetched' = fetched \cup {rev}
          /\ IF rev \in DOMAIN source
             THEN /\ target' = [i \in 0..position |->
                                   IF i = position THEN Promote(source[rev])
                                   ELSE target[i]]
                  /\ position' = position + 1
                  /\ UNCHANGED <<pc, error>>
             ELSE /\ pc' = "thrown"
                  /\ error' = "TypeError"
                  /\ UNCHANGED <<target, position>>
    /\ UNCHANGED source
    /\ UNCHANGED ReorderFrame

\* The loop ends: X is complete.
ReorderEnd ==
    /\ pc = "reorder"
    /\ position >= Length(source)
    /\ pc' = "reordered"
    /\ UNCHANGED <<source, target, position, fetched, error>>
    /\ UNCHANGED ReorderFrame

NextReorder ==
    \/ ReorderStep
    \/ ReorderEnd

SpecReorder == InitReorder /\ [][NextReorder]_vars

\* Bit b of the number x.
BitOf(x, b) == (x \div (2 ^ b)) % 2

\* C21: when the length n of x is a power of two, bitReverse(., log2n)
\* reverses the log2n bits of every index below n, maps 0..n-1 one-to-one
\* onto 0..n-1 and is its own inverse; the reorder step reads no index
\* outside x, does not throw, and ends with every element of x, promoted, in
\* exactly one place of X, as fft's copy has it.
C21_BitReversal ==
    LET n == Length(source)
        log2n == FloorLog2(n)
        rev(i) == bitReverse(i, log2n)
    IN n = 2 ^ log2n =>
          /\ \A i \in 0..(n - 1) :
                /\ rev(i) \in 0..(n - 1)
                /\ rev(rev(i)) = i
                /\ \A b \in 0..(log2n - 1) : BitOf(rev(i), b) = BitOf(i, log2n - 1 - b)
          /\ \A i, j \in 0..(n - 1) : rev(i) = rev(j) => i = j
          /\ {rev(i) : i \in 0..(n - 1)} = 0..(n - 1)
          /\ fetched \subseteq 0..(n - 1)
          /\ fetched = {rev(i) : i \in 0..(position - 1)}
          /\ pc # "thrown"
          /\ pc = "reordered" =>
                /\ DOMAIN target = 0..(n - 1)
                /\ fetched = 0..(n - 1)
                /\ \A j \in 0..(n - 1) :
                      Cardinality({i \in 0..(n - 1) : target[i] = Promote(source[j])}) = 1
                /\ target = fftReorder(source, n, log2n)
\* An array of eight numbers has been reordered: X[1] holds x[4] and X[3]
\* holds x[6].
C21_Witness ==
    /\ pc = "reordered"
    /\ Length(source) = 8
    /\ ~isComplex(source[4])
    /\ target[1] = Cx(source[4], Zero)
    /\ target[3] = Cx(source[6], Zero)
    /\ target[1] # Promote(source[1])

\* -------------------------------------------------------- the log-magnitude
\* The loop of process has ended and the logarithms are about to be taken,
\* or have been.
AtLogMagnitude ==
    \/ pc = "loop" /\ ~LoopCond(track, windowSize, inputBuffer)
    \/ pc = "returned"

\* C22 as stated: when the log-magnitude is taken every bin of the envelope
\* is a number >= 0, so that envelope[i] + 0.000001 is > 0, and no sample of
\* a returned buffer is NaN.
C22_PositiveLogArgument ==
    AtLogMagnitude =>
        /\ \A i \in 0..(windowSize - 1) :
              /\ amplitudes[i] = Zero \/ RGt(amplitudes[i], Zero)
              /\ RGt(RAdd(amplitudes[i], Epsilon), Zero)
        /\ pc = "returned" =>
              \A c \in DOMAIN result : \A i \in DOMAIN result[c] : ~IsNaN(result[c][i])
\* process has returned from two channels, both as long as the window and
\* the second shorter than the first: the envelope and the output are NaN.
C22_Witness ==
    /\ pc = "returned"
    /\ windowSize = 2
    /\ Length(inputBuffer[0]) = 3
    /\ Length(inputBuffer[1]) = 2
    /\ IsNaN(amplitudes[0])
    /\ IsNaN(RLog(RAdd(amplitudes[0], Epsilon)))
    /\ IsNaN(result[0][0])

\* ------------------------------------------------------------ silent input
\* process has been called on two or more channels whose samples are all
\* zero, each of them at least as long as the window, on an instance whose
\* window size is a power of two.
AllZero(input) == \A c \in DOMAIN input : \A i \in DOMAIN input[c] : input[c][i] = 0
SilentCall ==
    /\ pc # "ready"
    /\ windowSize >= 1
    /\ windowSize = 2 ^ FloorLog2(windowSize)
    /\ Length(inputBuffer) >= 2
    /\ AllZero(inputBuffer)
    /\ \A c \in DOMAIN inputBuffer : Length(inputBuffer[c]) >= windowSize

\* C23 as stated: on an input whose samples are all zero process does not
\* throw, and when it returns the envelope is zero in every bin and every
\* sample of both channels is zero, before normalize and after it.
C23_SilentOutput ==
    SilentCall =>
        /\ pc # "thrown"
        /\ pc = "returned" =>
              /\ \A i \in 0..(windowSize - 1) : amplitudes[i] = Zero
              /\ unnormalized = [c \in 0..1 |-> [i \in 0..(windowSize - 1) |-> Zero]]
              /\ result = unnormalized
\* process has returned from two silent channels, both as long as the
\* window and the second shorter than the first: every sample of the output
\* is NaN.
C23_Witness ==
    /\ SilentCall
    /\ pc = "returned"
    /\ windowSize = 2
    /\ inputBuffer = [c \in 0..1 |-> Silent(3 - c)]
    /\ \A c \in 0..1 : \A i \in 0..1 : IsNaN(result[c][i])
====
